---- MODULE Spec2Model ----
(***************************************************************************)
(* Data-quality rule system: rule creation (create_rule.py), violation     *)
(* evaluation (check_violations.py), query translation and execution       *)
(* (trading_agents.py, app.py).  Every operation runs to completion        *)
(* synchronously; an operation is one action.  The language model and the  *)
(* database are external: their answers are inputs drawn from small sets.  *)
(***************************************************************************)
EXTENDS Integers, Sequences, FiniteSets, TLC

VARIABLES
    Rules,      \* the Rules table, rows in rule_id order
    lastrowid,  \* the table's auto-increment counter (last id handed out)
    op,         \* the operation of this request
    pc,         \* "call": accepted, not yet run; "done": has returned
    arg,        \* the operation's inputs (caller's and the externals' answers)
    ret,        \* what the operation returned
    executed,   \* rule ids whose rule_text was handed to pd.read_sql, in order
    conns       \* connections checked out of the engine's pool and not released

vars == <<Rules, lastrowid, op, pc, arg, ret, executed, conns>>

(***************************************************************************)
(* Bounds                                                                  *)
(***************************************************************************)
MaxRules == 2       \* rows in the Rules table
MaxRows == 2        \* rows a query returns
MaxCols == 2        \* columns a query returns
MaxContent == 6     \* tokens of a translator model output

None == "None"

\* All sequences over S of length at most n.
SeqsUpTo(S, n) == UNION {[1..k -> S] : k \in 0..n}

(***************************************************************************)
(* The database client: pd.read_sql either raises or returns a DataFrame.  *)
(***************************************************************************)
DataFrame(r, c) == [raised |-> "", rows |-> r, cols |-> c]

Raises(m) == [raised |-> m, rows |-> 0, cols |-> 0]

NoFrame == DataFrame(0, 0)

ErrMsgs == {"(1064) SQL syntax error"}

\* DataFrame.empty: any axis of length 0.
DfEmpty(df) == df.rows = 0 \/ df.cols = 0

\* len(df): the number of rows.
DfLen(df) == df.rows

\* What a rule's SELECT can answer: an error, or rows over a fixed column list.
RuleOutcomes == {Raises(m) : m \in ErrMsgs} \cup {DataFrame(r, 1) : r \in 0..MaxRows}

\* What an ad-hoc statement can answer.
QueryOutcomes ==
    {Raises(m) : m \in ErrMsgs}
        \cup {DataFrame(r, c) : r \in 0..MaxRows, c \in 1..MaxCols}

\* Mutant: the connection is closed on the success path only.
WithExitOnSuccess(held, raised) == IF raised THEN held ELSE held - 1

\* Connection.__exit__ at the end of "with engine.connect() as conn": the
\* connection is released whether the body returned or raised.
WithExit(held, raised) == held - 1

\* The connections held after the with blocks an operation entered, one after
\* the other; scopes[i] says whether the body of the i-th block raised.
RECURSIVE ConnsAfter(_, _)
ConnsAfter(held, scopes) ==
    IF scopes = <<>> THEN held
    ELSE ConnsAfter(WithExit(held + 1, Head(scopes)), Tail(scopes))

(***************************************************************************)
(* Rules table                                                             *)
(***************************************************************************)
Severities == {"HIGH", "MEDIUM", "LOW"}

RuleIds == 1..MaxRules

Rule(id, name, desc, text, sev) ==
    [rule_id |-> id, rule_name |-> name, rule_description |-> desc,
     rule_text |-> text, severity |-> sev]

\* A stored rule as rule creation leaves it; the id is its insertion rank.
StoredRule(i, sev) == Rule(i, "n1", "d1", <<"SELECT">>, sev)

\* The tables the evaluator can find: up to MaxRules rules of any severities.
Stores ==
    UNION {{[i \in 1..n |-> StoredRule(i, sv[i])] : sv \in [1..n -> Severities]}
            : n \in 0..MaxRules}

\* Statements handed to pd.read_sql.  A SELECT only reads.  TRUNCATE TABLE
\* Rules is executed before the missing result set makes read_sql raise:
\* as rule text it is the token D, as an ad-hoc statement TruncateRules.
NotSelect == <<"D">>

TruncateRules == "TRUNCATE TABLE Rules"

\* The Rules table and its auto-increment counter after statements were
\* executed; removes says that one of them is the TRUNCATE, accepted that the
\* server carried it out (DDL commits by itself, whatever the connection
\* does afterwards).
TableAfter(store, removes, accepted) == IF removes /\ accepted THEN <<>> ELSE store

CounterAfter(id, removes, accepted) == IF removes /\ accepted THEN 0 ELSE id

(***************************************************************************)
(* Violation evaluator: RuleExecutionTool._run                             *)
(***************************************************************************)
\* The filter: an empty rule_ids list and an empty severity are falsy.
ParamSets ==
    [rule_ids : SUBSET RuleIds, severity : Severities \cup {""}]

\* Mutant: a severity given together with rule ids is not added to the query.
SelectRulesIdsFirst(store, params) ==
    LET Match(r) ==
            IF params.rule_ids # {} THEN r.rule_id \in params.rule_ids
            ELSE params.severity # "" => r.severity = params.severity
    IN SelectSeq(store, Match)

\* SELECT * FROM Rules WHERE 1=1 [AND rule_id IN :rule_ids] [AND severity = :severity]
SelectRules(store, params) ==
    LET Match(r) ==
            /\ (params.rule_ids # {} => r.rule_id \in params.rule_ids)
            /\ (params.severity # "" => r.severity = params.severity)
    IN SelectSeq(store, Match)

Entry(status, rule, count, data, msg) ==
    [status |-> status, rule_id |-> rule.rule_id, rule_name |-> rule.rule_name,
     count |-> count, data |-> data, msg |-> msg]

\* Mutant: a rule is reported violated only from the second row on.
RunRuleOffByOne(rule, result) ==
    IF result.raised # ""
    THEN Entry("EXEC_ERROR", rule, 0, NoFrame, result.raised)
    ELSE IF DfLen(result) > 1
         THEN Entry("VIOLATED", rule, DfLen(result), result, "")
         ELSE Entry("CLEAN", rule, 0, NoFrame, "")

\* One pass of the loop body: the entry appended for rule.
RunRule(rule, result) ==
    IF result.raised # ""
    THEN Entry("EXEC_ERROR", rule, 0, NoFrame, result.raised)
    ELSE IF ~DfEmpty(result)
         THEN Entry("VIOLATED", rule, DfLen(result), result, "")
         ELSE Entry("CLEAN", rule, 0, NoFrame, "")

\* Mutant: the try wraps the loop, so the first failing rule ends the batch.
RECURSIVE RunLoopAbort(_, _)
RunLoopAbort(rules, dbres) ==
    IF rules = <<>> THEN <<>>
    ELSE LET e == RunRule(Head(rules), dbres[Head(rules).rule_id])
         IN IF e.status = "EXEC_ERROR" THEN <<e>>
            ELSE <<e>> \o RunLoopAbort(Tail(rules), dbres)

\* Mutant: only violations and errors are collected.
RECURSIVE RunLoopSkipClean(_, _)
RunLoopSkipClean(rules, dbres) ==
    IF rules = <<>> THEN <<>>
    ELSE LET e == RunRule(Head(rules), dbres[Head(rules).rule_id])
         IN (IF e.status = "CLEAN" THEN <<>> ELSE <<e>>)
                \o RunLoopSkipClean(Tail(rules), dbres)

\* for rule in rules: all_violations.append(...)
RECURSIVE RunLoop(_, _)
RunLoop(rules, dbres) ==
    IF rules = <<>> THEN <<>>
    ELSE <<RunRule(Head(rules), dbres[Head(rules).rule_id])>>
            \o RunLoop(Tail(rules), dbres)

\* The statements the loop handed to pd.read_sql: one per pass, and each pass
\* appends one entry.
ReadSqlCalls(entries) == [i \in 1..Len(entries) |-> entries[i].rule_id]

CheckReturn(kind, entries, msg) == [kind |-> kind, entries |-> entries, msg |-> msg]

\* Mutant: without the early return an empty rule list falls through the loop.
RuleExecutionTool_runNoEarlyReturn(store, a) ==
    IF a.load # ""
    THEN [ret |-> CheckReturn("error", <<>>, a.load), executed |-> <<>>]
    ELSE LET rules == SelectRules(store, a.params)
             all_violations == RunLoop(rules, a.dbres)
         IN IF all_violations = <<>>
            THEN [ret |-> CheckReturn("no_violations", <<>>, ""), executed |-> <<>>]
            ELSE [ret |-> CheckReturn("report", all_violations, ""),
                  executed |-> ReadSqlCalls(all_violations)]

\* a.load: the error of connecting or of loading the rules, "" when they load.
RuleExecutionTool_run(store, a) ==
    IF a.load # ""
    THEN [ret |-> CheckReturn("error", <<>>, a.load), executed |-> <<>>]
    ELSE LET rules == SelectRules(store, a.params)
         IN IF rules = <<>>
            THEN [ret |-> CheckReturn("no_rules", <<>>, ""), executed |-> <<>>]
            ELSE LET all_violations == RunLoop(rules, a.dbres)
                 IN IF all_violations = <<>>
                    THEN [ret |-> CheckReturn("no_violations", <<>>, ""),
                          executed |-> <<>>]
                    ELSE [ret |-> CheckReturn("report", all_violations, ""),
                          executed |-> ReadSqlCalls(all_violations)]

\* The with block of check_violations.py 42: a failing rule is caught inside
\* it, a failing load leaves it by the exception.
CheckScopes(a) == <<a.load # "">>

CheckArgs ==
    [params : ParamSets, dbres : [RuleIds -> RuleOutcomes], load : ErrMsgs \cup {""}]

InitEval ==
    /\ Rules \in Stores
    /\ lastrowid = Len(Rules)
    /\ op = "check"
    /\ pc = "call"
    /\ arg \in CheckArgs
    /\ ret = None
    /\ executed = <<>>
    /\ conns = 0

CheckViolations ==
    /\ op = "check"
    /\ pc = "call"
    /\ LET r == RuleExecutionTool_run(Rules, arg)
           ran == {Rules[i].rule_text : i \in {j \in DOMAIN Rules :
                        \E k \in DOMAIN r.executed : r.executed[k] = Rules[j].rule_id}}
       IN /\ ret' = r.ret
          /\ executed' = r.executed
          /\ \E accepted \in BOOLEAN :
                /\ Rules' = TableAfter(Rules, NotSelect \in ran, accepted)
                /\ lastrowid' = CounterAfter(lastrowid, NotSelect \in ran, accepted)
    /\ conns' = ConnsAfter(conns, CheckScopes(arg))
    /\ pc' = "done"
    /\ UNCHANGED <<op, arg>>

NextEval == CheckViolations

SpecEval == InitEval /\ [][NextEval]_vars

\* The rules the request loaded, and the database's answer to the i-th of them.
Loaded == SelectRules(Rules, arg.params)

Answer(i) == arg.dbres[Loaded[i].rule_id]

CheckDone == op = "check" /\ pc = "done" /\ arg.load = ""

\* C1: a rule whose SQL raises a database error gets an error entry carrying
\* the error message, every rule after it is still executed and reported, and
\* the batch is not aborted.
C1_ContinueAfterError ==
    CheckDone =>
        \A i \in 1..Len(Loaded) :
            Answer(i).raised # "" =>
                /\ ret.kind = "report"
                /\ i \in DOMAIN ret.entries
                /\ ret.entries[i].status = "EXEC_ERROR"
                /\ ret.entries[i].rule_id = Loaded[i].rule_id
                /\ ret.entries[i].msg = Answer(i).raised
                /\ \A j \in (i + 1)..Len(Loaded) :
                        /\ j \in DOMAIN executed
                        /\ executed[j] = Loaded[j].rule_id
                        /\ j \in DOMAIN ret.entries
                        /\ ret.entries[j].rule_id = Loaded[j].rule_id

\* A failing first rule followed by a rule reported as violated.
C1_Witness ==
    /\ CheckDone
    /\ Len(Loaded) = 2
    /\ Answer(1).raised # ""
    /\ Len(ret.entries) = 2
    /\ ret.entries[2].status = "VIOLATED"

NonEmptyAnswers == {i \in 1..Len(Loaded) : Answer(i).raised = "" /\ Answer(i).rows > 0}

\* C2: for N loaded rules of which K have non-empty result sets the report
\* has N entries, one per rule in load order, K of them VIOLATED and the
\* other N-K CLEAN or EXEC_ERROR.
C2_ReportShape ==
    CheckDone =>
        /\ Len(ret.entries) = Len(Loaded)
        /\ \A i \in 1..Len(Loaded) : ret.entries[i].rule_id = Loaded[i].rule_id
        /\ Cardinality({i \in DOMAIN ret.entries : ret.entries[i].status = "VIOLATED"})
                = Cardinality(NonEmptyAnswers)
        /\ \A i \in DOMAIN ret.entries :
                ret.entries[i].status \in {"VIOLATED", "CLEAN", "EXEC_ERROR"}

\* Two rules loaded, the first clean and the second violated.
C2_Witness ==
    /\ CheckDone
    /\ Len(Loaded) = 2
    /\ Cardinality(NonEmptyAnswers) = 1
    /\ ret.entries[1].status = "CLEAN"
    /\ ret.entries[2].status = "VIOLATED"

\* C3: a rule whose SQL executes without error is CLEAN exactly when it
\* returns no row and VIOLATED exactly when it returns one or more; a
\* VIOLATED entry carries the rows and their number.
C3_Classification ==
    CheckDone =>
        \A i \in 1..Len(Loaded) :
            Answer(i).raised = "" =>
                /\ i \in DOMAIN ret.entries
                /\ ret.entries[i].status = "CLEAN" <=> Answer(i).rows = 0
                /\ ret.entries[i].status = "VIOLATED" <=> Answer(i).rows >= 1
                /\ ret.entries[i].status = "VIOLATED" =>
                        /\ ret.entries[i].data = Answer(i)
                        /\ ret.entries[i].count = Answer(i).rows

\* A rule returning exactly one row, reported violated with count 1.
C3_Witness ==
    /\ CheckDone
    /\ Len(Loaded) >= 1
    /\ Answer(1) = DataFrame(1, 1)
    /\ ret.entries[1].status = "VIOLATED"
    /\ ret.entries[1].count = 1

\* C4: a filter that matches no stored rule executes no rule SQL and returns
\* the report that no rules matched; it is not an error report.
C4_NoMatch ==
    (CheckDone /\ Loaded = <<>>) =>
        /\ ret.kind = "no_rules"
        /\ ret.entries = <<>>
        /\ executed = <<>>

\* severity=LOW against a non-empty store without LOW rules.
C4_Witness ==
    /\ CheckDone
    /\ Rules # <<>>
    /\ arg.params = [rule_ids |-> {}, severity |-> "LOW"]
    /\ \A i \in DOMAIN Rules : Rules[i].severity # "LOW"
    /\ ret.kind = "no_rules"

\* The filter's meaning, case by case.
Matches(rule, params) ==
    CASE params.rule_ids # {} /\ params.severity # "" ->
            rule.rule_id \in params.rule_ids /\ rule.severity = params.severity
      [] params.rule_ids # {} /\ params.severity = "" -> rule.rule_id \in params.rule_ids
      [] params.rule_ids = {} /\ params.severity # "" -> rule.severity = params.severity
      [] OTHER -> TRUE

\* C18: the check executes and reports exactly the rules matching the
\* filter, each once: those with an id in a non-empty rule_ids, those of the
\* given severity, those satisfying both when both are given, and every
\* rule of the store when neither is given or rule_ids is empty.
C18_ExactlyMatching ==
    (CheckDone /\ arg.load = "") =>
        LET want == {Rules[i].rule_id : i \in {j \in DOMAIN Rules : Matches(Rules[j], arg.params)}}
        IN /\ {executed[k] : k \in DOMAIN executed} = want
           /\ {ret.entries[k].rule_id : k \in DOMAIN ret.entries} = want
           /\ Len(executed) = Cardinality(want)
           /\ Len(ret.entries) = Cardinality(want)

\* Both rule ids and severity HIGH asked of a store whose second rule is LOW:
\* only the first rule ran.
C18_Witness ==
    /\ CheckDone
    /\ arg.load = ""
    /\ arg.params = [rule_ids |-> {1, 2}, severity |-> "HIGH"]
    /\ Len(Rules) = 2
    /\ Rules[1].severity = "HIGH"
    /\ Rules[2].severity = "LOW"
    /\ executed = <<1>>

(***************************************************************************)
(* Query executor: SQLExecutionTool._run and query_database                *)
(***************************************************************************)
\* What the translator agent can hand back (app.py 109).
DictWithKey == [type |-> "dict", text |-> "{'sql_query': ...}", sql |-> "SELECT 1"]

DictBadSql == [type |-> "dict", text |-> "{'sql_query': ...}", sql |-> "SELEC 1"]

DictNoKey == [type |-> "dict", text |-> "{'error': ...}", sql |-> ""]

StrOf(t) == [type |-> "str", text |-> t, sql |-> ""]

OtherValue == [type |-> "other", text |-> "None", sql |-> ""]

JsonText == "{\"sql_query\": \"SELECT 1\"}"

ReprText == "{'sql_query': 'SELECT 1'}"

JsonListText == "[\"sql_query\"]"

TranslatorOutputs ==
    {DictWithKey, DictBadSql, DictNoKey, OtherValue}
        \cup {StrOf(t) : t \in {JsonText, ReprText, JsonListText, "SELECT 1", "SELEC 1",
                                 TruncateRules}}

\* 'sql_query' in sql_result, for a mapping.
HasKey(d) == d \in {DictWithKey, DictBadSql}

\* "sql_query" in sql_result.lower(), for a string.
Mentions(t) == t \in {JsonText, ReprText, JsonListText}

\* json.loads(sql_result)['sql_query']: the value, or "" when decoding or the
\* subscript raises.
JsonSqlQuery(t) == IF t = JsonText THEN "SELECT 1" ELSE ""

Unbound == "<unbound>"

\* app.py 112-122: sql_query stays unassigned when neither branch is taken.
ExtractSqlQuery(sql_result) ==
    IF sql_result.type = "dict" /\ HasKey(sql_result) THEN sql_result.sql
    ELSE IF sql_result.type = "str"
         THEN IF Mentions(sql_result.text)
              THEN IF JsonSqlQuery(sql_result.text) # ""
                   THEN JsonSqlQuery(sql_result.text)
                   ELSE sql_result.text
              ELSE sql_result.text
         ELSE Unbound

\* The statements that can reach the database, and those it answers with a
\* result set.
Statements == {"SELECT 1", "SELEC 1", ReprText, JsonListText, TruncateRules}

WellFormed == {"SELECT 1"}

\* The database's answer to each statement: one that is malformed or returns
\* no result set always makes read_sql raise.
DbAnswers ==
    {[q \in Statements |-> IF q \in WellFormed THEN o ELSE Raises(m)]
        : o \in QueryOutcomes, m \in ErrMsgs}

ErrorText(m) == [kind |-> "text", prefix |-> "Error executing query: ", msg |-> m, df |-> NoFrame]

DfToString(df) == [kind |-> "text", prefix |-> "", msg |-> "", df |-> df]

Frame(df) == [kind |-> "frame", prefix |-> "", msg |-> "", df |-> df]

\* Mutant: no try/except around the execution.
SQLExecutionTool_runUncaught(sql_query, db) ==
    IF db[sql_query].raised # ""
    THEN [raised |-> db[sql_query].raised, value |-> DfToString(NoFrame)]
    ELSE [raised |-> "", value |-> DfToString(db[sql_query])]

\* SQLExecutionTool._run
SQLExecutionTool_run(sql_query, db) ==
    IF db[sql_query].raised # ""
    THEN [raised |-> "", value |-> ErrorText(db[sql_query].raised)]
    ELSE [raised |-> "", value |-> DfToString(db[sql_query])]

\* Mutant: a result is tabular only when it has several columns.
IsTableColumnsOnly(df) == ~DfEmpty(df) /\ df.cols > 1

\* not df_result.empty and len(df_result.columns) > 1 or len(df_result) > 1
IsTable(df) == (~DfEmpty(df) /\ df.cols > 1) \/ DfLen(df) > 1

QueryReturn(raised, sql_query, results, is_table) ==
    [raised |-> raised, sql_query |-> sql_query, results |-> results, is_table |-> is_table]

\* query_database: a.sql_result is the translator's answer, a.agent the
\* database's answer inside the executor agent's tool, a.db its answer to the
\* direct execution.
query_database(a) ==
    LET sql_query == ExtractSqlQuery(a.sql_result)
    IN IF sql_query = Unbound
       THEN QueryReturn("UnboundLocalError", None, DfToString(NoFrame), FALSE)
       ELSE LET agent_result == SQLExecutionTool_run(sql_query, a.agent)
                df_result == a.db[sql_query]
            IN IF agent_result.raised # ""
               THEN QueryReturn(agent_result.raised, None, DfToString(NoFrame), FALSE)
               ELSE IF df_result.raised # ""
               THEN QueryReturn("", sql_query, ErrorText(df_result.raised), FALSE)
               ELSE IF IsTable(df_result)
               THEN QueryReturn("", sql_query, Frame(df_result), TRUE)
               ELSE QueryReturn("", sql_query, agent_result.value, FALSE)

\* The with block of trading_agents.py 142.
ExecuteScopes(sql_query, db) == <<db[sql_query].raised # "">>

\* The executor tool's block, then the block of app.py 136; none is entered
\* when line 132 raises on the unassigned sql_query.
QueryScopes(a) ==
    LET sql_query == ExtractSqlQuery(a.sql_result)
    IN IF sql_query = Unbound THEN <<>>
       ELSE ExecuteScopes(sql_query, a.agent) \o <<a.db[sql_query].raised # "">>

ExecuteArgs == [sql_query : Statements, db : DbAnswers]

QueryArgs == [sql_result : TranslatorOutputs, agent : DbAnswers, db : DbAnswers]

InitQuery ==
    /\ Rules \in Stores
    /\ lastrowid = Len(Rules)
    /\ \/ op = "execute" /\ arg \in ExecuteArgs
       \/ op = "query" /\ arg \in QueryArgs
    /\ pc = "call"
    /\ ret = None
    /\ executed = <<>>
    /\ conns = 0

ExecuteSQL ==
    /\ op = "execute"
    /\ pc = "call"
    /\ ret' = SQLExecutionTool_run(arg.sql_query, arg.db)
    /\ \E accepted \in BOOLEAN :
            /\ Rules' = TableAfter(Rules, arg.sql_query = TruncateRules, accepted)
            /\ lastrowid' = CounterAfter(lastrowid, arg.sql_query = TruncateRules, accepted)
    /\ conns' = ConnsAfter(conns, ExecuteScopes(arg.sql_query, arg.db))
    /\ pc' = "done"
    /\ UNCHANGED <<op, arg, executed>>

QueryDatabase ==
    /\ op = "query"
    /\ pc = "call"
    /\ ret' = query_database(arg)
    /\ \E accepted \in BOOLEAN :
            LET removes == ExtractSqlQuery(arg.sql_result) = TruncateRules
            IN /\ Rules' = TableAfter(Rules, removes, accepted)
               /\ lastrowid' = CounterAfter(lastrowid, removes, accepted)
    /\ conns' = ConnsAfter(conns, QueryScopes(arg))
    /\ pc' = "done"
    /\ UNCHANGED <<op, arg, executed>>

NextQuery == ExecuteSQL \/ QueryDatabase

SpecQuery == InitQuery /\ [][NextQuery]_vars

ExecuteDone == op = "execute" /\ pc = "done"

\* query_database has returned from, or raised in, its database step.
QueryDone == op = "query" /\ pc = "done" /\ ExtractSqlQuery(arg.sql_result) # Unbound

QueryAnswer == arg.db[ExtractSqlQuery(arg.sql_result)]

\* C5: the query executor never raises: a failing execution, a malformed
\* statement included, comes back as the text 'Error executing query: ...',
\* from SQLExecutionTool._run and from query_database's database step.
C5_ExecutorNeverRaises ==
    /\ ExecuteDone =>
        /\ ret.raised = ""
        /\ arg.db[arg.sql_query].raised # "" =>
                ret.value = ErrorText(arg.db[arg.sql_query].raised)
        /\ arg.sql_query \notin WellFormed => ret.value.prefix = "Error executing query: "
    /\ QueryDone =>
        /\ ret.raised = ""
        /\ QueryAnswer.raised # "" =>
                /\ ret.results = ErrorText(QueryAnswer.raised)
                /\ ret.is_table = FALSE
        /\ ExtractSqlQuery(arg.sql_result) \notin WellFormed =>
                ret.results.prefix = "Error executing query: "

\* A malformed statement answered with the error text.
C5_Witness ==
    /\ ExecuteDone
    /\ arg.sql_query = "SELEC 1"
    /\ ret.raised = ""
    /\ ret.value.prefix = "Error executing query: "

\* C6 as stated: tabular exactly when more than one column or more than one
\* row, for every row and column count.
C6_TabularAsStated ==
    (QueryDone /\ QueryAnswer.raised = "") =>
        (ret.is_table <=> (QueryAnswer.cols > 1 \/ QueryAnswer.rows > 1))

\* C6 (amended): tabular exactly when the result has more than one row, or
\* exactly one row and more than one column; a result without rows is
\* scalar/text whatever its columns.
C6_Tabular ==
    (QueryDone /\ QueryAnswer.raised = "") =>
        /\ ret.is_table <=>
                (QueryAnswer.rows > 1 \/ (QueryAnswer.rows = 1 /\ QueryAnswer.cols > 1))
        /\ QueryAnswer.rows = 0 => ~ret.is_table

\* One row of two columns shown as a table.
C6_Witness ==
    /\ QueryDone
    /\ QueryAnswer = DataFrame(1, 2)
    /\ ret.is_table

\* C16: query_database returns a record with sql_query, results and is_table
\* for every shape of translator answer (a mapping with or without the
\* sql_query key, a JSON string, a plain string, any other value); the SQL
\* text is defined before the execution is attempted.
C16_QueryResultAlways ==
    (op = "query" /\ pc = "done") =>
        /\ ExtractSqlQuery(arg.sql_result) # Unbound
        /\ ret.raised = ""
        /\ ret.sql_query # None

(***************************************************************************)
(* Text: a string is the sequence of its characters (or of its tokens).    *)
(***************************************************************************)
Whitespace == {" ", "\n"}

\* str.strip(chars): drop the leading and trailing members of chars.
RECURSIVE LStrip(_, _)
LStrip(s, chars) ==
    IF s # <<>> /\ Head(s) \in chars THEN LStrip(Tail(s), chars) ELSE s

RECURSIVE RStrip(_, _)
RStrip(s, chars) ==
    IF s # <<>> /\ s[Len(s)] \in chars THEN RStrip(SubSeq(s, 1, Len(s) - 1), chars) ELSE s

PyStrip(s, chars) == RStrip(LStrip(s, chars), chars)

\* The places where the two-character string ab starts in s.
Occurrences(s, a, b) == {i \in 1..(Len(s) - 1) : s[i] = a /\ s[i + 1] = b}

\* ab in s
Contains2(s, a, b) == Occurrences(s, a, b) # {}

\* s.find(ab), for a string that contains ab (1-based).
Find2(s, a, b) == CHOOSE i \in Occurrences(s, a, b) : \A j \in Occurrences(s, a, b) : i <= j

\* s[i:], 1-based.
From(s, i) == SubSeq(s, i, Len(s))

(***************************************************************************)
(* Rule creation: RuleGeneratorTool._run                                   *)
(***************************************************************************)
\* Model output as tokens: a brace, a run of other text, or one member
\* "key": "value" of a JSON object.
LB == [t |-> "{", k |-> "", v |-> ""]

RB == [t |-> "}", k |-> "", v |-> ""]

Txt == [t |-> "text", k |-> "", v |-> ""]

Pair(key, value) == [t |-> "pair", k |-> key, v |-> value]

Required == <<"rule_name", "rule_description", "severity", "rule_text">>

RequiredSet == {Required[i] : i \in DOMAIN Required}

\* "{" in content, content.find("{"), content.rfind("}")
HasTok(content, tok) == \E i \in DOMAIN content : content[i] = tok

FindTok(content, tok) ==
    CHOOSE i \in DOMAIN content :
        content[i] = tok /\ \A j \in DOMAIN content : content[j] = tok => i <= j

RFindTok(content, tok) ==
    CHOOSE i \in DOMAIN content :
        content[i] = tok /\ \A j \in DOMAIN content : content[j] = tok => j <= i

\* json.loads(json_str): an object when the text is one brace pair around
\* members, a decode error otherwise. For a repeated key the last member wins.
JsonLoads(json_str) ==
    LET n == Len(json_str)
        ok == /\ n >= 2
              /\ json_str[1] = LB
              /\ json_str[n] = RB
              /\ \A i \in 2..(n - 1) : json_str[i].t = "pair"
        keys == IF ok THEN {json_str[i].k : i \in 2..(n - 1)} ELSE {}
        Last(key) == CHOOSE i \in 2..(n - 1) :
                        /\ json_str[i].k = key
                        /\ \A j \in 2..(n - 1) : json_str[j].k = key => j <= i
    IN [ok |-> ok, data |-> [key \in keys |-> json_str[Last(key)].v]]

\* Mutant: the closing brace is left out of the slice.
JsonStrShort(content) ==
    SubSeq(content, FindTok(content, LB), RFindTok(content, RB) - 1)

\* content[content.find("{") : content.rfind("}") + 1], for a text with both
\* braces; empty when the last "}" comes before the first "{".
JsonStr(content) ==
    SubSeq(content, FindTok(content, LB), RFindTok(content, RB))

\* create_rule.py 121-125
StripComment(sql_text) ==
    IF Contains2(sql_text, "/", "*") /\ Contains2(sql_text, "*", "/")
    THEN PyStrip(From(sql_text, Find2(sql_text, "*", "/") + 2), Whitespace)
    ELSE sql_text

\* Mutant: the severity is stored as the model gave it.
CoerceSeverityKeep(severity) == severity

\* create_rule.py 117-118
CoerceSeverity(severity) == IF severity \notin Severities THEN "MEDIUM" ELSE severity

\* The except clause's record; it has no rule_id (0 stands for the absent key).
ErrorRecord(e) ==
    [rule_name |-> "Error", rule_description |-> e, severity |-> "HIGH",
     rule_text |-> <<"Error generating rule">>, error |-> TRUE, rule_id |-> 0]

\* Mutant: the record is returned without the id of the new row.
RuleDataNoId(name, desc, sev, text, id) ==
    [rule_name |-> name, rule_description |-> desc, severity |-> sev,
     rule_text |-> text, error |-> FALSE, rule_id |-> 0]

\* rule_data as returned at line 147, rule_id and rule_text as set at 143-145;
\* the record has the error key when the decoded object had one.
RuleData(name, desc, sev, text, id) ==
    [rule_name |-> name, rule_description |-> desc, severity |-> sev,
     rule_text |-> text, error |-> FALSE, rule_id |-> id]

Unchanged(store, id, r) == [Rules |-> store, lastrowid |-> id, ret |-> r]

\* RuleGeneratorTool._run from the model's answer on: a.content is
\* response.content, a.insert the error of the INSERT or commit ("" when the
\* row is committed).
RuleGeneratorTool_run(store, id, a) ==
    IF ~(HasTok(a.content, LB) /\ HasTok(a.content, RB))
    THEN Unchanged(store, id, ErrorRecord("Could not find JSON data in response"))
    ELSE
    LET rule_data == JsonLoads(JsonStr(a.content))
    IN IF ~rule_data.ok
       THEN Unchanged(store, id, ErrorRecord("JSONDecodeError"))
       ELSE IF ~(RequiredSet \subseteq DOMAIN rule_data.data)
       THEN Unchanged(store, id, ErrorRecord("Missing required fields in rule data"))
       ELSE
       LET d == rule_data.data
           severity == CoerceSeverity(d["severity"])
           sql_text == StripComment(d["rule_text"])
       IN IF a.insert # ""
          THEN Unchanged(store, id, ErrorRecord(a.insert))
          ELSE [Rules |-> Append(store, Rule(id + 1, d["rule_name"],
                                             d["rule_description"], sql_text, severity)),
                lastrowid |-> id + 1,
                ret |-> [RuleData(d["rule_name"], d["rule_description"], severity,
                                  sql_text, id + 1)
                            EXCEPT !.error = "error" \in DOMAIN d]]

\* The with block of create_rule.py 128 is entered once the answer decoded
\* with its four fields; the INSERT or the commit can raise inside it.
CreateScopes(a) ==
    IF /\ HasTok(a.content, LB) /\ HasTok(a.content, RB)
       /\ JsonLoads(JsonStr(a.content)).ok
       /\ RequiredSet \subseteq DOMAIN JsonLoads(JsonStr(a.content)).data
    THEN <<a.insert # "">>
    ELSE <<>>

\* Field values a model output can carry.
Names == {"n1", "n2"}

Descriptions == {"d1"}

SeverityWords == Severities \cup {"high", "CRITICAL"}

Plain == <<"S">>

Commented == <<"/", "*", "c", "*", "/", " ", "S">>

TrailingComment == <<"S", " ", "/", "*", "c", "*", "/">>

Unterminated == <<"/", "*", "c", " ", "S">>

\* NotSelect (D) is a statement that is not a SELECT; S stands for a SELECT.
\* A closing marker before an opening one: no comment in the text.
ClosedFirst == <<"*", "/", " ", "S", " ", "/", "*">>

SqlTexts == {Plain, Commented, TrailingComment, Unterminated, ClosedFirst, NotSelect}

\* A JSON object of the model: the required keys in has, with these values;
\* error says that the object also has the member "error": true.
Doc(has, name, desc, sev, text) ==
    [has |-> has, error |-> FALSE,
     rule_name |-> IF "rule_name" \in has THEN name ELSE "",
     rule_description |-> IF "rule_description" \in has THEN desc ELSE "",
     severity |-> IF "severity" \in has THEN sev ELSE "",
     rule_text |-> IF "rule_text" \in has THEN text ELSE <<>>]

WithErrorKey(doc) == [doc EXCEPT !.error = TRUE]

FourFieldDocs ==
    {Doc(RequiredSet, n, d, sv, t) : n \in Names, d \in Descriptions,
                                     sv \in SeverityWords, t \in SqlTexts}

Docs ==
    {Doc(has, n, d, sv, t) : has \in SUBSET RequiredSet, n \in Names,
                             d \in Descriptions, sv \in SeverityWords, t \in SqlTexts}
        \cup {WithErrorKey(doc) : doc \in FourFieldDocs}

\* The object's text.
DocTokens(doc) ==
    LET Member(key) == IF key \in doc.has THEN <<Pair(key, doc[key])>> ELSE <<>>
    IN <<LB>> \o Member("rule_name") \o Member("rule_description")
            \o Member("severity") \o Member("rule_text")
            \o (IF doc.error THEN <<Pair("error", "true")>> ELSE <<>>) \o <<RB>>

\* Text around the object.
Extras == {<<>>, <<Txt>>, <<LB>>, <<RB>>}

\* a.shaped, a.doc, a.pre and a.post say how a.content was written (with or
\* without a JSON object between the extra text); the code reads a.content alone.
CreateArgs ==
    {[content |-> pre \o DocTokens(doc) \o post, shaped |-> TRUE, doc |-> doc,
      pre |-> pre, post |-> post, insert |-> ins]
        : pre \in Extras, post \in Extras, doc \in Docs, ins \in ErrMsgs \cup {""}}
    \cup
    {[content |-> pre \o post, shaped |-> FALSE, doc |-> Doc({}, "", "", "", <<>>),
      pre |-> pre, post |-> post, insert |-> ins]
        : pre \in Extras, post \in Extras, ins \in ErrMsgs \cup {""}}

\* The tables rule creation can find.
StoresCreate == {[i \in 1..n |-> StoredRule(i, "HIGH")] : n \in 0..MaxRules}

InitCreate ==
    /\ Rules \in StoresCreate
    /\ lastrowid = Len(Rules)
    /\ op = "create"
    /\ pc = "call"
    /\ arg \in CreateArgs
    /\ ret = None
    /\ executed = <<>>
    /\ conns = ConnsAfter(0, <<FALSE>>)

CreateRule ==
    /\ op = "create"
    /\ pc = "call"
    /\ LET r == RuleGeneratorTool_run(Rules, lastrowid, arg)
       IN /\ Rules' = r.Rules
          /\ lastrowid' = r.lastrowid
          /\ ret' = r.ret
    /\ conns' = ConnsAfter(conns, CreateScopes(arg))
    /\ pc' = "done"
    /\ UNCHANGED <<op, arg, executed>>

NextCreate == CreateRule

SpecCreate == InitCreate /\ [][NextCreate]_vars

CreateDone == op = "create" /\ pc = "done"

BraceFree(text) == ~HasTok(text, LB) /\ ~HasTok(text, RB)

\* The model wrote one JSON object with the four required fields, the text
\* around it has no brace, and the database accepted the row.
FourFieldsWritten ==
    /\ arg.shaped
    /\ arg.doc.has = RequiredSet
    /\ BraceFree(arg.pre)
    /\ BraceFree(arg.post)
    /\ arg.insert = ""

NewRule == Rules[Len(Rules)]

\* C7: a severity outside HIGH, MEDIUM, LOW (a differently-cased spelling
\* included) does not fail rule creation: the rule persisted and returned
\* has severity MEDIUM; every persisted rule has a severity in
\* {HIGH, MEDIUM, LOW}.
C7_SeverityCoerced ==
    CreateDone =>
        /\ \A i \in DOMAIN Rules : Rules[i].severity \in Severities
        /\ (FourFieldsWritten /\ arg.doc.severity \notin Severities) =>
                /\ ret.error = arg.doc.error
                /\ ret.severity = "MEDIUM"
                /\ Len(Rules) = lastrowid
                /\ NewRule.rule_id = ret.rule_id
                /\ NewRule.severity = "MEDIUM"

\* The model answered severity 'high'; the rule was stored as MEDIUM.
C7_Witness ==
    /\ CreateDone
    /\ FourFieldsWritten
    /\ arg.doc.severity = "high"
    /\ ret.error = FALSE
    /\ NewRule.severity = "MEDIUM"

RoundTrip ==
    /\ ret.error = arg.doc.error
    /\ ret.rule_name = arg.doc.rule_name
    /\ ret.rule_description = arg.doc.rule_description
    /\ ret.severity = arg.doc.severity
    /\ ret.rule_text = arg.doc.rule_text

\* C9 as stated: every JSON-shaped output with the four required fields,
\* possibly surrounded by extra text, comes back with exactly its four values.
C9_RoundTripAsStated ==
    (CreateDone /\ arg.shaped /\ arg.doc.has = RequiredSet /\ arg.insert = "") => RoundTrip

HasCommentPair(text) == Contains2(text, "/", "*") /\ Contains2(text, "*", "/")

\* C9 (amended): the four values come back (and are stored) exactly when the
\* severity is one of HIGH, MEDIUM, LOW and the rule text does not contain
\* both block-comment markers; otherwise the severity or the rule text is
\* rewritten.
C9_RoundTrip ==
    (CreateDone /\ FourFieldsWritten) =>
        /\ (arg.doc.severity \in Severities /\ ~HasCommentPair(arg.doc.rule_text)) =>
                /\ RoundTrip
                /\ NewRule = Rule(ret.rule_id, arg.doc.rule_name, arg.doc.rule_description,
                                  arg.doc.rule_text, arg.doc.severity)
        /\ ret.error = arg.doc.error
        /\ ret.rule_name = arg.doc.rule_name
        /\ ret.rule_description = arg.doc.rule_description

\* An object between two runs of text, returned value for value.
C9_Witness ==
    /\ CreateDone
    /\ FourFieldsWritten
    /\ arg.pre = <<Txt>>
    /\ arg.post = <<Txt>>
    /\ arg.doc.severity = "LOW"
    /\ arg.doc.rule_text = Unterminated
    /\ RoundTrip

\* An opening marker with a closing marker after it.
PairedComment(text) ==
    \E i \in Occurrences(text, "/", "*") :
        \E j \in Occurrences(text, "*", "/") : j >= i + 2

\* C12: a raw SQL field with a paired block comment (an opening marker
\* followed by a closing one) is stored and returned cut after the first
\* closing marker and trimmed; a field without such a pair is stored and
\* returned unchanged.
C12_CommentStripped ==
    (CreateDone /\ FourFieldsWritten) =>
        LET raw == arg.doc.rule_text
            sql_text == IF PairedComment(raw)
                        THEN PyStrip(From(raw, Find2(raw, "*", "/") + 2), Whitespace)
                        ELSE raw
        IN /\ ret.rule_text = sql_text
           /\ NewRule.rule_text = sql_text

\* A statement that only reads: the SELECT statement itself.
ReadOnlySelect(sql_text) == sql_text \in {<<"S">>, <<"SELECT">>}

\* C13: every rule in the store after rule creation, whatever the model
\* answered, has a rule_text that is a read-only SELECT statement.
C13_StoredTextIsSelect ==
    CreateDone => \A i \in DOMAIN Rules : ReadOnlySelect(Rules[i].rule_text)

\* Answers that cannot give a rule: no JSON object, an object without one of
\* the four fields, or a row the database refused.
CreateFails ==
    \/ ~arg.shaped
    \/ arg.doc.has # RequiredSet
    \/ arg.insert # ""

\* C20: _run returns the error-marked record exactly when no rule was
\* persisted: after a failure of parsing, validation or the insert the table
\* is as before and the record has the error marker and no rule_id; a
\* record without the marker means that exactly one row, with the record's
\* id and field values, was added.
C20_ErrorIffNotPersisted ==
    [][(op = "create" /\ pc = "call" /\ pc' = "done") =>
            /\ ret'.error <=> Rules' = Rules
            /\ CreateFails => ret'.error
            /\ ret'.error => (ret'.rule_id = 0 /\ lastrowid' = lastrowid)
            /\ ~ret'.error =>
                    /\ ret'.rule_id # 0
                    /\ Rules' = Append(Rules, Rule(ret'.rule_id, ret'.rule_name,
                                                   ret'.rule_description, ret'.rule_text,
                                                   ret'.severity))]_vars

(***************************************************************************)
(* Rule creation, the caller's side: main() of create_rule.py reads the    *)
(* agent's answer rule_result.                                             *)
(***************************************************************************)
\* A text answer is a run of "label: value" fragments, written as members of
\* a brace pair, separated by commas, or one per line; r.intro says that a
\* sentence ending in a colon comes first.
Frag(label, value) == [label |-> label, value |-> value]

\* json/ast decoding keeps the keys as written.
BraceKey(label) == label

\* key.lower() == "name", ... (create_rule.py 244-252)
CsvKey(label) ==
    IF label \in {"Name", "name"} THEN "rule_name"
    ELSE IF label \in {"Description", "description"} THEN "rule_description"
    ELSE IF label \in {"Severity", "severity"} THEN "severity"
    ELSE IF label \in {"SQL Query", "sql query", "Rule SQL"} THEN "rule_text"
    ELSE IF label = "Rule ID" THEN "rule_id"
    ELSE ""

\* "Name:" in line, ... (create_rule.py 261-271), case-sensitive
LineKey(label) ==
    IF label \in {"Name", "Rule Name"} THEN "rule_name"
    ELSE IF label \in {"Description"} THEN "rule_description"
    ELSE IF label \in {"Severity"} THEN "severity"
    ELSE IF label \in {"SQL Query", "Rule SQL"} THEN "rule_text"
    ELSE IF label = "Rule ID" THEN "rule_id"
    ELSE ""

\* any(key in parts[0].lower() for key in ["name", "description", "severity", "sql", "id"])
HasKeyword(label) ==
    label \in {"Name", "name", "Rule Name", "rule_name", "Description", "description",
               "rule_description", "Severity", "severity", "SQL Query", "sql query",
               "Rule SQL", "Rule ID"}

\* create_rule.py 228-232: the text up to the first colon is dropped when it
\* names no field. With an intro that is the intro; without, it is the first
\* fragment's label, and the fragment loses it.
DropPrefix(r) ==
    IF r.intro \/ r.frags = <<>> THEN r.frags
    ELSE IF HasKeyword(r.frags[1].label) THEN r.frags
    ELSE <<Frag("", r.frags[1].value)>> \o Tail(r.frags)

\* The canonical key a strategy reads from a label, "" when it reads none.
KeyFor(strategy, label) ==
    IF strategy = "csv" THEN CsvKey(label)
    ELSE IF strategy = "lines" THEN LineKey(label)
    ELSE BraceKey(label)

\* The record a strategy builds: the canonical keys it recognised, with the
\* last value given for each.
Collect(frags, strategy) ==
    LET keys == {KeyFor(strategy, frags[i].label) : i \in DOMAIN frags} \ {""}
        Last(key) == CHOOSE i \in DOMAIN frags :
                        /\ KeyFor(strategy, frags[i].label) = key
                        /\ \A j \in DOMAIN frags :
                                KeyFor(strategy, frags[j].label) = key => j <= i
    IN [key \in keys |-> frags[Last(key)].value]

\* "," in rule_result and ":" in rule_result, after the prefix is dropped
HasCommaAndColon(r, frags) ==
    /\ r.sep = "," /\ Len(frags) >= 2
    /\ \E i \in DOMAIN frags : frags[i].label # ""

MainReturn(outcome, strategy, rule_data, missing, raw) ==
    [outcome |-> outcome, strategy |-> strategy, keys |-> DOMAIN rule_data,
     shown |-> [key \in RequiredSet |->
                    IF key \in DOMAIN rule_data THEN rule_data[key] ELSE "N/A"],
     missing |-> missing, raw |-> raw]

NoData == [key \in {} |-> ""]

\* create_rule.py 296-307
Display(strategy, rule_data) ==
    IF "error" \in DOMAIN rule_data
    THEN MainReturn("error_creating_rule", strategy, rule_data, {}, FALSE)
    ELSE MainReturn("created", strategy, rule_data, {}, FALSE)

\* create_rule.py 281-288
Verify(strategy, rule_data) ==
    LET missing_fields == RequiredSet \ DOMAIN rule_data
    IN IF missing_fields # {}
       THEN MainReturn("missing_fields", strategy, rule_data, missing_fields, TRUE)
       ELSE Display(strategy, rule_data)

\* One pass of main()'s loop from the agent's answer on (create_rule.py 199-311).
main(r) ==
    IF r.type = "str"
    THEN IF r.braces
         THEN IF r.decodes
              THEN Display("brace", Collect(r.frags, "brace"))
              ELSE MainReturn("error_processing_results", "brace", NoData, {}, TRUE)
         ELSE LET frags == DropPrefix(r)
              IN IF HasCommaAndColon(r, frags)
                 THEN Verify("csv", Collect(frags, "csv"))
                 ELSE Verify("lines", Collect(frags, "lines"))
    ELSE IF r.type = "dict"
    THEN Display("dict", Collect(r.frags, "dict"))
    ELSE MainReturn("unexpected_response_type", "none", NoData, {}, TRUE)

\* The labels an answer can give each field, "" for a field it leaves out.
NameLabels == {"", "Name", "name", "rule_name"}

DescriptionLabels == {"", "Description", "rule_description"}

SeverityLabels == {"", "Severity", "severity"}

SqlLabels == {"", "SQL Query", "sql query", "rule_text"}

ErrorLabels == {"", "error"}

Frags(n, d, sv, t, e) ==
    LET F(label, value) == IF label = "" THEN <<>> ELSE <<Frag(label, value)>>
    IN F(n, "n1") \o F(d, "d1") \o F(sv, "HIGH") \o F(t, "SELECT 1") \o F(e, "True")

AgentAnswers ==
    {[type |-> ty, braces |-> b, decodes |-> dc, sep |-> sp, intro |-> i,
      frags |-> Frags(n, d, sv, t, e)]
        : ty \in {"str"}, b \in BOOLEAN, dc \in BOOLEAN, sp \in {",", "\n"},
          i \in BOOLEAN, n \in NameLabels, d \in DescriptionLabels,
          sv \in SeverityLabels, t \in SqlLabels, e \in ErrorLabels}
    \cup
    {[type |-> ty, braces |-> FALSE, decodes |-> FALSE, sep |-> ",", intro |-> FALSE,
      frags |-> Frags(n, d, sv, t, e)]
        : ty \in {"dict", "other"}, n \in {"", "rule_name"},
          d \in {"", "rule_description"}, sv \in {"", "severity"},
          t \in {"", "rule_text"}, e \in ErrorLabels}

InitMain ==
    /\ Rules \in StoresCreate
    /\ lastrowid = Len(Rules)
    /\ op = "main"
    /\ pc = "call"
    /\ arg \in AgentAnswers
    /\ ret = None
    /\ executed = <<>>
    /\ conns = 0

ReadAnswer ==
    /\ op = "main"
    /\ pc = "call"
    /\ ret' = main(arg)
    /\ pc' = "done"
    /\ UNCHANGED <<Rules, lastrowid, op, arg, executed, conns>>

NextMain == ReadAnswer

SpecMain == InitMain /\ [][NextMain]_vars

\* C8: whichever strategy (brace/JSON, comma-separated, line-by-line) built
\* the record, a record without one of the four required fields is a failure
\* that shows the raw text and lists the missing fields; no value stands in
\* for an absent field.
C8_MissingFieldsFail ==
    (op = "main" /\ pc = "done" /\ ret.strategy \in {"brace", "csv", "lines"}
        /\ ret.outcome # "error_processing_results"
        /\ ~(RequiredSet \subseteq ret.keys)) =>
            /\ ret.outcome = "missing_fields"
            /\ ret.raw
            /\ ret.missing = RequiredSet \ ret.keys

\* C17: the strategies are tried in their order (brace/JSON decoding, then
\* comma-separated pairs, then labelled lines), a later one exactly when the
\* earlier ones gave no record: a strategy that applies and fails is never
\* the last one tried while a later one remains.
C17_FirstSuccess ==
    (op = "main" /\ pc = "done" /\ arg.type = "str") =>
        /\ (arg.braces /\ arg.decodes) => ret.strategy = "brace"
        /\ ~arg.braces => ret.strategy \in {"csv", "lines"}
        /\ ret.strategy = "brace" => ret.outcome # "error_processing_results"
        /\ ret.strategy = "csv" => ret.keys # {}

(***************************************************************************)
(* Query translation: NL2SQLTool._run                                      *)
(***************************************************************************)
\* Model output as tokens: the code fence, the word sql, a newline, the
\* keyword SELECT, a lower-case letter among s, q, l, another character, and
\* for JSON answers the braces, a double quote and the member
\* "sql_query": "SELECT".
Fence == "<fence>"

Member == "\"sql_query\": \"SELECT\""

BaseTokens == {Fence, "sql", "\n", "SELECT", "s", "x"}

\* The tokens made of the characters s, q, l only: what strip("sql") removes.
SqlChars == {"sql", "s"}

\* "SELECT" in part.upper() or "WITH" in part.upper()
PartHasKeyword(part) == \E i \in DOMAIN part : part[i] \in {"SELECT", "WITH", Member}

\* content.split(sep)
RECURSIVE Split(_, _)
Split(content, sep) ==
    IF \A i \in DOMAIN content : content[i] # sep THEN <<content>>
    ELSE LET i == CHOOSE k \in DOMAIN content :
                    content[k] = sep /\ \A j \in 1..(k - 1) : content[j] # sep
         IN <<SubSeq(content, 1, i - 1)>> \o Split(From(content, i + 1), sep)

\* part.strip().strip("sql").strip()
CleanPart(part) == PyStrip(PyStrip(PyStrip(part, Whitespace), SqlChars), Whitespace)

\* json.loads(response.content): the sql_query of the object, <<>> when the
\* text does not decode.
JsonLoadsQuery(content) ==
    IF PyStrip(content, Whitespace) = <<"{", Member, "}">> THEN <<"SELECT">> ELSE <<>>

\* trading_agents.py 114-119
RawQuery(content) ==
    LET sql_query == PyStrip(content, Whitespace)
    IN IF sql_query # <<>> /\ Head(sql_query) = "\"" /\ sql_query[Len(sql_query)] = "\""
       THEN SubSeq(sql_query, 2, Len(sql_query) - 1)
       ELSE sql_query

Translation(how, sql_query) == [how |-> how, sql_query |-> sql_query]

\* NL2SQLTool._run from the model's answer on.
NL2SQLTool_run(content) ==
    LET sql_parts == Split(content, Fence)
        hits == {i \in DOMAIN sql_parts : PartHasKeyword(sql_parts[i])}
        HasBraces == (\E i \in DOMAIN content : content[i] = "{")
                        /\ (\E i \in DOMAIN content : content[i] = "}")
    IN IF Len(sql_parts) > 1 /\ hits # {}
       THEN LET first == CHOOSE i \in hits : \A j \in hits : i <= j
            IN Translation("fenced", CleanPart(sql_parts[first]))
       ELSE IF HasBraces /\ JsonLoadsQuery(content) # <<>>
       THEN Translation("json", JsonLoadsQuery(content))
       ELSE Translation("raw", RawQuery(content))

\* Answers written as JSON or in quotes.
Written ==
    {<<"{", Member, "}">>, <<"\n", "{", Member, "}">>, <<"{", "x", "}">>,
     <<Fence, "{", Member, "}", Fence>>, <<"x", "{", Member, "}">>,
     <<"\"", "SELECT", "x", "\"">>, <<"\"", "SELECT">>}

Contents == SeqsUpTo(BaseTokens, MaxContent) \cup Written

InitNL2SQL ==
    /\ Rules = <<>>
    /\ lastrowid = 0
    /\ op = "nl2sql"
    /\ pc = "call"
    /\ arg \in [content : Contents]
    /\ ret = None
    /\ executed = <<>>
    /\ conns = ConnsAfter(0, <<FALSE>>)

Translate ==
    /\ op = "nl2sql"
    /\ pc = "call"
    /\ ret' = NL2SQLTool_run(arg.content)
    /\ pc' = "done"
    /\ UNCHANGED <<Rules, lastrowid, op, arg, executed, conns>>

NextNL2SQL == Translate

SpecNL2SQL == InitNL2SQL /\ [][NextNL2SQL]_vars

\* The answer is one fenced block: fence, the tag sql, whitespace, the SQL,
\* fence; the SQL holds the keyword and no fence.
FencedWithTag(content) ==
    /\ Len(content) >= 5
    /\ content[1] = Fence
    /\ content[2] = "sql"
    /\ content[3] \in Whitespace
    /\ content[Len(content)] = Fence
    /\ \A i \in 4..(Len(content) - 1) : content[i] # Fence
    /\ content[4] = "SELECT"

FencedSql(content) == SubSeq(content, 4, Len(content) - 1)

\* C10: for SQL in a fenced block with a leading language tag the parser
\* returns the block's SQL with only the tag and the surrounding whitespace
\* removed; no other character of the statement is removed or changed.
C10_FenceStrippedExactly ==
    (op = "nl2sql" /\ pc = "done" /\ FencedWithTag(arg.content)) =>
        ret.sql_query = PyStrip(FencedSql(arg.content), Whitespace)

\* The parts of content.split(fence) that lie between an opening fence and
\* the next fence: the even-numbered ones.
FencedBlocks(content) ==
    LET sql_parts == Split(content, Fence)
    IN {i \in DOMAIN sql_parts : i % 2 = 0 /\ PartHasKeyword(sql_parts[i])}

\* C11: when the answer holds fenced code blocks the parser returns the first
\* fenced block that contains SELECT or WITH; text outside the fences is
\* never returned as the SQL.
C11_OnlyFencedBlocksSelected ==
    (op = "nl2sql" /\ pc = "done" /\ Len(Split(arg.content, Fence)) > 1) =>
        LET sql_parts == Split(arg.content, Fence)
            blocks == FencedBlocks(arg.content)
        IN IF blocks # {}
           THEN LET first == CHOOSE i \in blocks : \A j \in blocks : i <= j
                IN ret = Translation("fenced", CleanPart(sql_parts[first]))
           ELSE ret.how # "fenced"

(***************************************************************************)
(* The application (app.py main): the user's requests are served one after *)
(* the other over one Rules table.  A request is accepted (Submit...), then *)
(* its handler runs to the end.                                            *)
(***************************************************************************)
\* Model outputs of a session's rule creations.
SessionDocs ==
    {Doc(has, "n1", "d1", sv, t) : has \in {RequiredSet, RequiredSet \ {"rule_text"}},
                                   sv \in {"HIGH", "LOW", "high"}, t \in {Plain, NotSelect}}

SessionCreateArgs ==
    {[content |-> DocTokens(doc), shaped |-> TRUE, doc |-> doc,
      pre |-> <<>>, post |-> <<>>, insert |-> ins]
        : doc \in SessionDocs, ins \in ErrMsgs \cup {""}}

\* The database's answers to a session's rules: a rule that is not a SELECT
\* makes read_sql raise.
SessionOutcomes == {Raises(m) : m \in ErrMsgs} \cup {DataFrame(r, 1) : r \in 0..1}

SessionCheckArgs(store) ==
    {a \in [params : {[rule_ids |-> {}, severity |-> ""],
                      [rule_ids |-> {}, severity |-> "HIGH"],
                      [rule_ids |-> {1}, severity |-> ""]},
            dbres : [RuleIds -> SessionOutcomes],
            load : ErrMsgs \cup {""}] :
        \A i \in DOMAIN store :
            store[i].rule_text = NotSelect => a.dbres[store[i].rule_id].raised # ""}

SessionQueryArgs ==
    {a \in [sql_result : {DictWithKey, DictNoKey, StrOf("SELEC 1"), StrOf(TruncateRules)},
            agent : DbAnswers, db : DbAnswers] :
        /\ a.agent = a.db
        /\ a.db["SELECT 1"] \in {Raises(m) : m \in ErrMsgs} \cup {DataFrame(1, 1)}}

\* The tools are constructed (init_session_state): the constructors of
\* RuleGeneratorTool and NL2SQLTool read the schema inside a with block.
Init ==
    /\ Rules = <<>>
    /\ lastrowid = 0
    /\ op = "idle"
    /\ pc = "done"
    /\ arg = None
    /\ ret = None
    /\ executed = <<>>
    /\ conns = ConnsAfter(0, <<FALSE, FALSE>>)

Submit(operation, a) ==
    /\ pc = "done"
    /\ op' = operation
    /\ arg' = a
    /\ pc' = "call"
    /\ ret' = None
    /\ executed' = <<>>
    /\ UNCHANGED <<Rules, lastrowid, conns>>

\* The table is kept within MaxRules rows.
SubmitCreate == lastrowid < MaxRules /\ \E a \in SessionCreateArgs : Submit("create", a)

SubmitCheck == \E a \in SessionCheckArgs(Rules) : Submit("check", a)

SubmitQuery == pc = "done" /\ \E a \in SessionQueryArgs : Submit("query", a)

Next ==
    \/ SubmitCreate
    \/ SubmitCheck
    \/ SubmitQuery
    \/ CreateRule
    \/ CheckViolations
    \/ QueryDatabase

Spec == Init /\ [][Next]_vars

\* C14: over any sequence of create-rule, check-violations and run-query
\* operations a rule once in the store stays in it with the same name,
\* description, severity and rule_text, and the store changes only by the
\* insertion of one rule during create-rule.
C14_RulesImmutable ==
    [][/\ \A i \in DOMAIN Rules : i \in DOMAIN Rules' /\ Rules'[i] = Rules[i]
       /\ Rules' # Rules => (op = "create" /\ Len(Rules') = Len(Rules) + 1)]_vars

\* Rule creations one after the other, nothing else touching the table.
NextCreates == SubmitCreate \/ CreateRule

SpecCreates == Init /\ [][NextCreates]_vars

\* C15: a successful creation appends one row, returns that row's id, and the
\* id differs from the id of every rule already in the store; no step of a
\* sequence of creations removes or changes a row, so the store keeps every
\* id returned before and the returned ids are pairwise distinct.
C15_NewIdentifier ==
    [][/\ \A i \in DOMAIN Rules : i \in DOMAIN Rules' /\ Rules'[i] = Rules[i]
       /\ (pc = "call" /\ CreateDone' /\ ~ret'.error) =>
            /\ Len(Rules') = Len(Rules) + 1
            /\ Rules'[Len(Rules')].rule_id = ret'.rule_id
            /\ ret'.rule_id = lastrowid'
            /\ \A i \in DOMAIN Rules : Rules[i].rule_id # ret'.rule_id]_vars

\* The second successful creation of a session returned the id 2, the first
\* rule keeping the id 1.
C15_Witness ==
    /\ CreateDone
    /\ ~ret.error
    /\ Len(Rules) = 2
    /\ Rules[1].rule_id = 1
    /\ ret.rule_id = 2
    /\ NewRule.rule_id = 2

\* C19: every operation (the constructors' schema reads, rule creation's
\* insert, the violation check, query execution) releases the connection it
\* opened when it ends, on the success path and on every error path: no
\* connection is held between operations.
C19_ConnectionsReleased == pc = "done" => conns = 0

\* A rule creation whose INSERT raised inside the with block has ended with
\* the error record and no connection held.
C19_Witness ==
    /\ CreateDone
    /\ CreateScopes(arg) = <<TRUE>>
    /\ ret.error
    /\ conns = 0

====
